---- MODULE Spec2Model ----
(***************************************************************************)
(* A model of the agent execution core of pc/app/agent/base.py:            *)
(* BaseAgent.run, BaseAgent.state_context, BaseAgent.update_memory,        *)
(* BaseAgent.is_stuck and BaseAgent.handle_stuck_state.                    *)
(*                                                                         *)
(* run() is a coroutine; its position is pc.  The only suspension point    *)
(* is the await of the abstract step(), whose body is a nondeterministic   *)
(* choice: it may append a message to memory, may set the state to         *)
(* FINISHED, and either returns a text or raises.                          *)
(***************************************************************************)
EXTENDS Naturals, Sequences, FiniteSets

VARIABLES
    state,               \* BaseAgent.state
    current_step,        \* BaseAgent.current_step
    max_steps,           \* BaseAgent.max_steps
    duplicate_threshold, \* BaseAgent.duplicate_threshold
    memory,              \* BaseAgent.memory.messages
    next_step_prompt,    \* BaseAgent.next_step_prompt, as its sequence of lines
    pc,                  \* position of the run() coroutine
    request,             \* run(): the request argument, <<>> for None
    previous_state,      \* state_context(): the local previous_state
    results,             \* run(): the local list results
    exc,                 \* the exception in flight inside state_context
    outcome,             \* what the last completed call gave its caller
    entry,               \* history: state, current_step, memory at the last run() call
    step_calls,          \* history: step() invocations of the last run() call
    finish_seen,         \* history: a step of the last run() call set FINISHED
    runs,                \* history: number of run() calls made
    call,                \* the arguments of the last call of an operation other than run()
    lhs,                 \* ToolResult.__add__: self
    rhs,                 \* ToolResult.__add__: other
    response_type,       \* CreateChatCompletion.response_type
    required,            \* CreateChatCompletion.required
    parameters,          \* CreateChatCompletion.parameters
    result               \* CreateChatCompletion.execute: the local result

\* The agent, its run() coroutine and the history kept about it.
agentVars == <<state, current_step, max_steps, duplicate_threshold, memory,
               next_step_prompt, pc, request, previous_state, results, exc,
               outcome, entry, step_calls, finish_seen, runs>>

\* The tool results and the structured-completion tool.
toolVars == <<call, lhs, rhs, response_type, required, parameters, result>>

vars == <<agentVars, toolVars>>

---------------------------------------------------------------------------
(* Bounds of the model. *)

MaxSteps == 2

MaxRuns == 2

MaxMem == 4

MaxThreshold == 2

---------------------------------------------------------------------------
(* Data. *)

AgentState == {"IDLE", "RUNNING", "FINISHED", "ERROR"}

ROLE_TYPE == {"system", "user", "assistant", "tool"}

\* Message contents; "" is the empty text.
Contents == {"", "A", "B"}

\* An Optional[str] is <<>> (None) or <<s>>.
Requests == {<<>>} \cup {<<s>> : s \in {"", "A"}}

\* Texts a step() returns.
StepResults == {"done", "ok"}

\* Python truthiness of a str: the empty text is falsy.
Truthy(s) == s # ""

\* Python truthiness of an Optional[str]: None and "" are falsy.
TruthyOpt(o) == o # <<>> /\ Truthy(o[1])

Message(role, content) == [role |-> role, content |-> content]

add_message(mem, msg) == Append(mem, msg)

\* A variant of update_memory without the role validation.
update_memory_NoCheck(mem, role, content) ==
    add_message(mem, Message(role, content))

\* update_memory: a role outside message_map raises and leaves memory alone.
update_memory(mem, role, content) ==
    IF role \notin ROLE_TYPE THEN mem
    ELSE add_message(mem, Message(role, content))

\* What a step() may append to memory: nothing, or one assistant message.
StepAppends == {<<>>} \cup {<<Message("assistant", c)>> : c \in {"A", "B"}}

\* The lines of the summary run() returns.
StepRecord(n, text) == [kind |-> "Step", n |-> n, text |-> text]

TerminatedRecord(n) == [kind |-> "Terminated", n |-> n, text |-> ""]

NoStepsExecuted == [kind |-> "NoSteps", n |-> 0, text |-> ""]

\* "\n".join(results) if results else "No steps executed", as a list of lines.
Summary(res) == IF res # <<>> THEN res ELSE <<NoStepsExecuted>>

NoOutcome == [kind |-> "none"]

Returned(lines) == [kind |-> "return", value |-> lines]

Raised(e) == [kind |-> "raise", exc |-> e]

StuckPrompt == "Observed duplicate responses."

\* A variant of handle_stuck_state that adds the instruction only once.
handle_stuck_state_Once(prompt) ==
    IF prompt[1] = StuckPrompt THEN prompt ELSE <<StuckPrompt>> \o prompt

handle_stuck_state(prompt) == <<StuckPrompt>> \o prompt

\* A variant of duplicate_count that forgets the role test.
duplicate_count_AnyRole(mem) ==
    Cardinality({i \in 1..(Len(mem) - 1) :
                    mem[i].content = mem[Len(mem)].content})

\* The number of messages before the last one that are assistant messages with
\* the last message's content.
duplicate_count(mem) ==
    Cardinality({i \in 1..(Len(mem) - 1) :
                    /\ mem[i].role = "assistant"
                    /\ mem[i].content = mem[Len(mem)].content})

\* A variant of is_stuck whose last comparison is strict.
is_stuck_Strict(mem, threshold) ==
    IF Len(mem) < 2 THEN FALSE
    ELSE IF ~Truthy(mem[Len(mem)].content) THEN FALSE
    ELSE duplicate_count(mem) > threshold

is_stuck(mem, threshold) ==
    IF Len(mem) < 2 THEN FALSE
    ELSE IF ~Truthy(mem[Len(mem)].content) THEN FALSE
    ELSE duplicate_count(mem) >= threshold

\* A variant of the guard that only refuses a running agent.
CanRun_NotRunning(s) == s # "RUNNING"

\* A variant of the guard that refuses nothing.
CanRun_Unguarded(s) == TRUE

\* run(): the guard of its first line.
CanRun(s) == s = "IDLE"

\* A variant of the request test that reads "if request is not None".
RequestGiven_NotNone(req) == req # <<>>

\* run(): "if request:", the test that decides whether the request is stored.
RequestGiven(req) == TruthyOpt(req)

\* A variant of the while condition that looks at the budget only.
LoopCondition_BudgetOnly == current_step < max_steps

\* A variant of the while condition whose budget test is not strict.
LoopCondition_Inclusive == current_step <= max_steps /\ state # "FINISHED"

\* run(): the while condition.
LoopCondition == current_step < max_steps /\ state # "FINISHED"

---------------------------------------------------------------------------
(* Python values, tagged with their type.                                  *)

NoneVal == [t |-> "none"]

Str(s) == [t |-> "str", s |-> s]

Int(n) == [t |-> "int", n |-> n]

\* Python truthiness: None, the empty text and zero are falsy.
TruthyVal(v) ==
    CASE v.t = "none" -> FALSE
      [] v.t = "str"  -> v.s # ""
      [] v.t = "int"  -> v.n # 0
      [] v.t = "list" -> v.items # <<>>
      [] OTHER        -> TRUE

\* left + right, for two texts.
Plus(v, w) == Str(v.s \o w.s)

\* x or y
Or(v, w) == IF TruthyVal(v) THEN v ELSE w

\* No call of an operation other than run() has been made.
NoCall == [op |-> "none"]

\* No structured-completion tool has been built.
NoType == [kind |-> "none"]

NoSchema == [type |-> "none"]

\* ToolResult(): every field at its default None.
ToolResult(o, e, i, s) ==
    [output |-> o, error |-> e, base64_image |-> i, system |-> s]

EmptyToolResult == ToolResult(NoneVal, NoneVal, NoneVal, NoneVal)

\* The tool variables while only the agent is exercised.
ToolIdle ==
    /\ call = NoCall
    /\ lhs = EmptyToolResult
    /\ rhs = EmptyToolResult
    /\ response_type = NoType
    /\ required = <<>>
    /\ parameters = NoSchema
    /\ result = NoneVal

---------------------------------------------------------------------------
(* The agent after construction. state is a constructor field, so an agent *)
(* may be built in any state; current_step starts at its default 0.        *)

Init ==
    /\ state \in AgentState
    /\ current_step = 0
    /\ max_steps \in 0..MaxSteps
    /\ duplicate_threshold \in 1..MaxThreshold
    /\ memory = <<>>
    /\ next_step_prompt = <<"NEXT_STEP_PROMPT">>
    /\ pc = "idle"
    /\ request = <<>>
    /\ previous_state = "IDLE"
    /\ results = <<>>
    /\ exc = "none"
    /\ outcome = NoOutcome
    /\ entry = [state |-> state, current_step |-> 0, memory |-> <<>>]
    /\ step_calls = 0
    /\ finish_seen = FALSE
    /\ runs = 0
    /\ ToolIdle

---------------------------------------------------------------------------
(* run(request), up to the async with. *)

RunCall(req) ==
    /\ pc = "idle"
    /\ runs < MaxRuns
    /\ RequestGiven(req) => Len(memory) < MaxMem
    /\ runs' = runs + 1
    /\ request' = req
    /\ entry' = [state |-> state, current_step |-> current_step, memory |-> memory]
    /\ step_calls' = 0
    /\ finish_seen' = FALSE
    /\ exc' = "none"
    /\ IF ~CanRun(state)
       THEN /\ outcome' = Raised("RuntimeError")
            /\ pc' = "idle"
            /\ UNCHANGED <<memory, results>>
       ELSE /\ memory' = IF RequestGiven(req)
                         THEN update_memory(memory, "user", req[1])
                         ELSE memory
            /\ results' = <<>>
            /\ outcome' = NoOutcome
            /\ pc' = "enter_context"
    /\ UNCHANGED <<state, current_step, max_steps, duplicate_threshold,
                   next_step_prompt, previous_state>>
    /\ UNCHANGED toolVars

(* state_context(AgentState.RUNNING), up to the yield. *)
StateContextEnter ==
    /\ pc = "enter_context"
    /\ previous_state' = state
    /\ state' = "RUNNING"
    /\ pc' = "loop"
    /\ UNCHANGED <<current_step, max_steps, duplicate_threshold, memory,
                   next_step_prompt, request, results, exc, outcome, entry,
                   step_calls, finish_seen, runs>>
    /\ UNCHANGED toolVars

(* A variant of the loop entry that forgets to increment the counter. *)
LoopEnterStep_NoIncrement ==
    /\ pc = "loop"
    /\ LoopCondition
    /\ UNCHANGED current_step
    /\ step_calls' = step_calls + 1
    /\ pc' = "in_step"
    /\ UNCHANGED <<state, max_steps, duplicate_threshold, memory,
                   next_step_prompt, request, previous_state, results, exc,
                   outcome, entry, finish_seen, runs>>
    /\ UNCHANGED toolVars

(* The while condition holds: increment the counter and await step(). *)
LoopEnterStep ==
    /\ pc = "loop"
    /\ LoopCondition
    /\ current_step' = current_step + 1
    /\ step_calls' = step_calls + 1
    /\ pc' = "in_step"
    /\ UNCHANGED <<state, max_steps, duplicate_threshold, memory,
                   next_step_prompt, request, previous_state, results, exc,
                   outcome, entry, finish_seen, runs>>
    /\ UNCHANGED toolVars

(* The while condition fails: leave the loop. *)
LoopExit ==
    /\ pc = "loop"
    /\ ~LoopCondition
    /\ pc' = "after_loop"
    /\ UNCHANGED <<state, current_step, max_steps, duplicate_threshold, memory,
                   next_step_prompt, request, previous_state, results, exc,
                   outcome, entry, step_calls, finish_seen, runs>>
    /\ UNCHANGED toolVars

(* A variant of the step that records the counter as it was before the     *)
(* increment.                                                               *)
StepReturn_StaleNumber(app, text, finish) ==
    /\ pc = "in_step"
    /\ Len(memory) + Len(app) <= MaxMem
    /\ memory' = memory \o app
    /\ state' = IF finish THEN "FINISHED" ELSE state
    /\ finish_seen' = (finish_seen \/ finish)
    /\ next_step_prompt' = IF is_stuck(memory', duplicate_threshold)
                           THEN handle_stuck_state(next_step_prompt)
                           ELSE next_step_prompt
    /\ results' = Append(results, StepRecord(current_step - 1, text))
    /\ pc' = "loop"
    /\ UNCHANGED <<current_step, max_steps, duplicate_threshold, request,
                   previous_state, exc, outcome, entry, step_calls, runs>>
    /\ UNCHANGED toolVars

(* step() returns text, having appended app to memory and, with finish, set *)
(* the state to FINISHED; then the stuck check and the per-step record.     *)
StepReturn(app, text, finish) ==
    /\ pc = "in_step"
    /\ Len(memory) + Len(app) <= MaxMem
    /\ memory' = memory \o app
    /\ state' = IF finish THEN "FINISHED" ELSE state
    /\ finish_seen' = (finish_seen \/ finish)
    /\ next_step_prompt' = IF is_stuck(memory', duplicate_threshold)
                           THEN handle_stuck_state(next_step_prompt)
                           ELSE next_step_prompt
    /\ results' = Append(results, StepRecord(current_step, text))
    /\ pc' = "loop"
    /\ UNCHANGED <<current_step, max_steps, duplicate_threshold, request,
                   previous_state, exc, outcome, entry, step_calls, runs>>
    /\ UNCHANGED toolVars

(* step() raises, having appended app to memory. *)
StepRaise(app) ==
    /\ pc = "in_step"
    /\ Len(memory) + Len(app) <= MaxMem
    /\ memory' = memory \o app
    /\ exc' = "StepError"
    /\ pc' = "except"
    /\ UNCHANGED <<state, current_step, max_steps, duplicate_threshold,
                   next_step_prompt, request, previous_state, results, outcome,
                   entry, step_calls, finish_seen, runs>>
    /\ UNCHANGED toolVars

(* A variant of the handler that swallows the exception and resumes the loop. *)
ExceptHandler_Resume ==
    /\ pc = "except"
    /\ state' = "ERROR"
    /\ exc' = "none"
    /\ pc' = "loop"
    /\ UNCHANGED <<current_step, max_steps, duplicate_threshold, memory,
                   next_step_prompt, request, previous_state, results,
                   outcome, entry, step_calls, finish_seen, runs>>
    /\ UNCHANGED toolVars

(* state_context: except Exception: self.state = ERROR; raise e *)
ExceptHandler ==
    /\ pc = "except"
    /\ state' = "ERROR"
    /\ pc' = "finally"
    /\ UNCHANGED <<current_step, max_steps, duplicate_threshold, memory,
                   next_step_prompt, request, previous_state, results, exc,
                   outcome, entry, step_calls, finish_seen, runs>>
    /\ UNCHANGED toolVars

(* A variant of the budget test that forgets to reset the counter. *)
AfterLoop_NoReset ==
    /\ pc = "after_loop"
    /\ IF current_step >= max_steps
       THEN /\ state' = "IDLE"
            /\ results' = Append(results, TerminatedRecord(max_steps))
            /\ UNCHANGED current_step
       ELSE UNCHANGED <<current_step, state, results>>
    /\ pc' = "finally"
    /\ UNCHANGED <<max_steps, duplicate_threshold, memory, next_step_prompt,
                   request, previous_state, exc, outcome, entry, step_calls,
                   finish_seen, runs>>
    /\ UNCHANGED toolVars

(* A variant of the budget test that resets the counter on every exit. *)
AfterLoop_AlwaysReset ==
    /\ pc = "after_loop"
    /\ current_step' = 0
    /\ IF current_step >= max_steps
       THEN /\ state' = "IDLE"
            /\ results' = Append(results, TerminatedRecord(max_steps))
       ELSE UNCHANGED <<state, results>>
    /\ pc' = "finally"
    /\ UNCHANGED <<max_steps, duplicate_threshold, memory, next_step_prompt,
                   request, previous_state, exc, outcome, entry, step_calls,
                   finish_seen, runs>>
    /\ UNCHANGED toolVars

(* run(): the step budget test after the loop. *)
AfterLoop ==
    /\ pc = "after_loop"
    /\ IF current_step >= max_steps
       THEN /\ current_step' = 0
            /\ state' = "IDLE"
            /\ results' = Append(results, TerminatedRecord(max_steps))
       ELSE UNCHANGED <<current_step, state, results>>
    /\ pc' = "finally"
    /\ UNCHANGED <<max_steps, duplicate_threshold, memory, next_step_prompt,
                   request, previous_state, exc, outcome, entry, step_calls,
                   finish_seen, runs>>
    /\ UNCHANGED toolVars

(* A variant of the exit path that restores only when no exception is in   *)
(* flight, so that the ERROR write survives.                                *)
Finally_KeepError ==
    /\ pc = "finally"
    /\ state' = IF exc # "none" THEN state ELSE previous_state
    /\ outcome' = IF exc # "none" THEN Raised(exc) ELSE Returned(Summary(results))
    /\ exc' = "none"
    /\ pc' = "idle"
    /\ UNCHANGED <<current_step, max_steps, duplicate_threshold, memory,
                   next_step_prompt, request, previous_state, results, entry,
                   step_calls, finish_seen, runs>>
    /\ UNCHANGED toolVars

(* A variant of the exit path without the restore. *)
Finally_NoRestore ==
    /\ pc = "finally"
    /\ UNCHANGED state
    /\ outcome' = IF exc # "none" THEN Raised(exc) ELSE Returned(Summary(results))
    /\ exc' = "none"
    /\ pc' = "idle"
    /\ UNCHANGED <<current_step, max_steps, duplicate_threshold, memory,
                   next_step_prompt, request, previous_state, results, entry,
                   step_calls, finish_seen, runs>>
    /\ UNCHANGED toolVars

(* state_context: finally: self.state = previous_state; then run() returns *)
(* its summary, or the exception in flight reaches the caller.             *)
Finally ==
    /\ pc = "finally"
    /\ state' = previous_state
    /\ outcome' = IF exc # "none" THEN Raised(exc) ELSE Returned(Summary(results))
    /\ exc' = "none"
    /\ pc' = "idle"
    /\ UNCHANGED <<current_step, max_steps, duplicate_threshold, memory,
                   next_step_prompt, request, previous_state, results, entry,
                   step_calls, finish_seen, runs>>
    /\ UNCHANGED toolVars

Next ==
    \/ \E req \in Requests : RunCall(req)
    \/ StateContextEnter
    \/ LoopEnterStep
    \/ LoopExit
    \/ \E app \in StepAppends, text \in StepResults, finish \in BOOLEAN :
          StepReturn(app, text, finish)
    \/ \E app \in StepAppends : StepRaise(app)
    \/ ExceptHandler
    \/ AfterLoop
    \/ Finally

Spec == Init /\ [][Next]_vars

---------------------------------------------------------------------------
(* Properties of run() and state_context(), checked under Spec.            *)

RunFailedInStep ==
    pc = "idle" /\ outcome.kind = "raise" /\ outcome.exc = "StepError"

RunReturned == pc = "idle" /\ outcome.kind = "return"

\* C1, as stated: when step() raises during run(), the agent's state is ERROR
\* at the moment the exception reaches the caller.
C1_ErrorStateSurvives == RunFailedInStep => state = "ERROR"

\* C1, amended: when step() raises during run(), ERROR is written while the
\* exception is in flight, the restore of the exit path then overwrites it, and
\* at the moment the exception reaches the caller the agent's state is the state
\* it had before run(), IDLE.
C1_ErrorStateOverwritten ==
    /\ (pc = "finally" /\ exc # "none") => state = "ERROR"
    /\ RunFailedInStep => (state = entry.state /\ state = "IDLE")

C1_Witness == RunFailedInStep /\ step_calls >= 1 /\ state = "IDLE"

\* C2: in every state other than IDLE a run() call, with or without a request,
\* fails with the invocation error, invokes step() zero times and leaves
\* current_step, memory and state as they were.
C2_RejectedOutsideIdle ==
    (runs > 0 /\ entry.state # "IDLE") =>
        /\ pc = "idle"
        /\ outcome.kind = "raise" /\ outcome.exc = "RuntimeError"
        /\ step_calls = 0
        /\ state = entry.state
        /\ current_step = entry.current_step
        /\ memory = entry.memory

C2_Witness ==
    /\ runs > 0 /\ entry.state = "ERROR" /\ request = <<"A">>
    /\ outcome.kind = "raise" /\ outcome.exc = "RuntimeError"

OnlyStepRecords(lines) == \A i \in 1..Len(lines) : lines[i].kind = "Step"

\* C3, as stated: when the loop ends because a step set FINISHED, also on the
\* step whose number equals max_steps, no termination record is appended and
\* current_step is not reset: the summary holds per-step records only (with
\* max_steps = 1 and a step that finishes and returns "done" it is exactly
\* "Step 1: done").
C3_FinishedMeansNoTermination ==
    (RunReturned /\ finish_seen) =>
        /\ OnlyStepRecords(outcome.value)
        /\ current_step = entry.current_step + step_calls
        /\ (max_steps = 1 /\ outcome.value[1].text = "done") =>
               outcome.value = <<StepRecord(1, "done")>>

\* C4: from IDLE with current_step = 0 and max_steps = N >= 1, when no step sets
\* FINISHED, run() invokes step() exactly N times and returns with current_step
\* 0, state IDLE and the termination record for N as the summary's last line.
C4_BudgetExhausted ==
    (RunReturned /\ entry.current_step = 0 /\ max_steps >= 1 /\ ~finish_seen) =>
        /\ step_calls = max_steps
        /\ current_step = 0
        /\ state = "IDLE"
        /\ outcome.value[Len(outcome.value)] = TerminatedRecord(max_steps)
        /\ Len(outcome.value) = max_steps + 1

C4_Witness ==
    /\ RunReturned /\ entry.current_step = 0 /\ ~finish_seen
    /\ max_steps = 2 /\ step_calls = 2

\* C5, as stated: whenever run() returns without having invoked step(), the
\* value returned is exactly the sentinel "No steps executed".
C5_NoStepsGivesSentinel ==
    (RunReturned /\ step_calls = 0) => outcome.value = <<NoStepsExecuted>>

\* C6: when run() returns normally, by FINISHED or by the exhausted budget, the
\* agent's state is the state it had before run() was entered, IDLE.
C6_StateRestoredOnReturn ==
    RunReturned => (state = entry.state /\ state = "IDLE")

C6_Witness ==
    RunReturned /\ finish_seen /\ current_step > 0 /\ state = "IDLE"

\* C7: once step() has raised, run() invokes no further step(), does not resume
\* the loop, leaves memory as it was at the failure, and ends by giving the
\* caller that exception instead of a summary.
C7_StepFailureIsFatal ==
    [][exc # "none" =>
          /\ pc' \in {"finally", "idle"}
          /\ step_calls' = step_calls
          /\ memory' = memory
          /\ pc' = "idle" => outcome' = Raised(exc)]_vars

C7_Witness ==
    RunFailedInStep /\ step_calls = 2 /\ Len(results) = 1 /\ Len(memory) >= 2

\* C8, as stated: an accepted run(request) with a request supplied appends one
\* user message holding the request at the end of memory, before the state
\* becomes RUNNING and before any step(); without a request it appends nothing.
C8_RequestStored ==
    [][(pc = "idle" /\ pc' = "enter_context") =>
          /\ state' = "IDLE"
          /\ step_calls' = 0
          /\ memory' = IF request' # <<>>
                       THEN Append(memory, Message("user", request'[1]))
                       ELSE memory]_vars

\* C8, amended: an accepted run(request) with a non-empty request appends one
\* user message holding the request at the end of memory, before the state
\* becomes RUNNING and before any step(); with no request, or with the empty
\* text as request, it appends nothing; and run() itself changes memory nowhere
\* else.
C8_NonEmptyRequestStored ==
    [][/\ (pc = "idle" /\ pc' = "enter_context") =>
             /\ state' = "IDLE"
             /\ step_calls' = 0
             /\ memory' = IF request' # <<>> /\ request'[1] # ""
                          THEN Append(memory, Message("user", request'[1]))
                          ELSE memory
       /\ pc \in {"enter_context", "loop", "after_loop", "except", "finally"} =>
             memory' = memory]_vars

C8_Witness ==
    /\ pc = "enter_context" /\ state = "IDLE" /\ request = <<"A">>
    /\ Len(entry.memory) >= 1
    /\ memory = Append(entry.memory, Message("user", "A"))

---------------------------------------------------------------------------
(* is_stuck() as a pure function of memory and duplicate_threshold: the    *)
(* agent is built over every memory of at most MaxMem messages, and the    *)
(* one operation is a call of is_stuck().                                  *)

StuckRoles == {"assistant", "user", "tool"}

StuckMessages == {Message(r, c) : r \in StuckRoles, c \in Contents}

BoundedSeq(S, n) == UNION {[1..k -> S] : k \in 0..n}

StuckInit ==
    /\ state = "IDLE"
    /\ current_step = 0
    /\ max_steps = 0
    /\ duplicate_threshold \in 1..MaxThreshold
    /\ memory \in BoundedSeq(StuckMessages, MaxMem)
    /\ next_step_prompt = <<"NEXT_STEP_PROMPT">>
    /\ pc = "idle"
    /\ request = <<>>
    /\ previous_state = "IDLE"
    /\ results = <<>>
    /\ exc = "none"
    /\ outcome = NoOutcome
    /\ entry = [state |-> "IDLE", current_step |-> 0, memory |-> memory]
    /\ step_calls = 0
    /\ finish_seen = FALSE
    /\ runs = 0
    /\ ToolIdle

IsStuckCall ==
    /\ pc = "idle"
    /\ outcome = NoOutcome
    /\ outcome' = [kind |-> "is_stuck",
                   value |-> is_stuck(memory, duplicate_threshold)]
    /\ UNCHANGED <<state, current_step, max_steps, duplicate_threshold, memory,
                   next_step_prompt, pc, request, previous_state, results, exc,
                   entry, step_calls, finish_seen, runs>>
    /\ UNCHANGED toolVars

StuckNext == IsStuckCall

SpecStuck == StuckInit /\ [][StuckNext]_vars

---------------------------------------------------------------------------
(* Properties of is_stuck(), checked under SpecStuck.                      *)

IsStuckAnswered == outcome.kind = "is_stuck"

LastContent(mem) == mem[Len(mem)].content

\* The length of the longest suffix of mem made of assistant messages that all
\* carry the content of the last message.
TrailingRun(mem) ==
    IF mem = <<>> THEN 0
    ELSE LET n == Len(mem)
             fits == {k \in 0..n : \A i \in (n - k + 1)..n :
                         /\ mem[i].role = "assistant"
                         /\ mem[i].content = mem[n].content}
         IN CHOOSE k \in fits : \A j \in fits : j <= k

RECURSIVE AssistantCopies(_, _)
\* How many of the messages of mem are assistant messages with content c.
AssistantCopies(mem, c) ==
    IF mem = <<>> THEN 0
    ELSE (IF mem[1].role = "assistant" /\ mem[1].content = c THEN 1 ELSE 0)
         + AssistantCopies(Tail(mem), c)

\* The assistant messages before the last message that carry its content.
PriorCopies(mem) == AssistantCopies(SubSeq(mem, 1, Len(mem) - 1), LastContent(mem))

\* C9, as stated: is_stuck() is true whenever memory ends with at least
\* duplicate_threshold consecutive assistant messages of identical content, and
\* false whenever it ends with fewer.
C9_StuckIffTrailingRun ==
    IsStuckAnswered =>
        (outcome.value <=> TrailingRun(memory) >= duplicate_threshold)

\* C9, amended: is_stuck() is true whenever memory ends with at least
\* duplicate_threshold + 1 consecutive assistant messages of identical non-empty
\* content (for threshold 2, three trailing "A" are stuck), and false whenever
\* fewer than duplicate_threshold assistant messages before the last message,
\* adjacent to it or not, carry the last message's content.
C9_StuckByTrailingRun ==
    IsStuckAnswered =>
        /\ (TrailingRun(memory) >= duplicate_threshold + 1
              /\ LastContent(memory) # "") => outcome.value
        /\ (Len(memory) >= 1 /\ PriorCopies(memory) < duplicate_threshold) =>
              ~outcome.value
        /\ Len(memory) = 0 => ~outcome.value

C9_Witness ==
    /\ IsStuckAnswered /\ outcome.value
    /\ duplicate_threshold = 2
    /\ memory = <<Message("assistant", "A"), Message("assistant", "A"),
                  Message("assistant", "A")>>

\* C10, as stated: is_stuck() is false when memory holds fewer than two
\* messages, and otherwise true exactly when at least duplicate_threshold of the
\* messages before the last one are assistant messages with the last message's
\* content; nothing else, an empty content included, changes the answer.
C10_StuckIffPriorCopies ==
    IsStuckAnswered =>
        (outcome.value <=>
            (Len(memory) >= 2 /\ PriorCopies(memory) >= duplicate_threshold))

\* C10, amended: is_stuck() is false when memory holds fewer than two messages
\* or when the last message's content is empty, and otherwise true exactly when
\* at least duplicate_threshold of the messages before the last one are
\* assistant messages with the last message's content; the last message's role
\* and the position of the duplicates do not change the answer.
C10_StuckIffPriorCopiesNonEmpty ==
    IsStuckAnswered =>
        (outcome.value <=>
            /\ Len(memory) >= 2
            /\ LastContent(memory) # ""
            /\ PriorCopies(memory) >= duplicate_threshold)

C10_Witness ==
    /\ IsStuckAnswered /\ ~outcome.value
    /\ Len(memory) >= 2 /\ LastContent(memory) = ""
    /\ PriorCopies(memory) >= duplicate_threshold

---------------------------------------------------------------------------
(* Properties of the stuck mitigation of run(), checked under Spec.        *)

\* The stuck test, by counting the earlier copies of the last message.
StuckNow(mem, threshold) ==
    /\ Len(mem) >= 2
    /\ LastContent(mem) # ""
    /\ PriorCopies(mem) >= threshold

StepReturns == pc = "in_step" /\ pc' = "loop"

\* next_step_prompt is some copies of the corrective instruction followed by
\* the prompt the agent was built with.
PromptShape ==
    \E k \in 0..Len(next_step_prompt) - 1 :
        next_step_prompt = [i \in 1..k |-> StuckPrompt] \o <<"NEXT_STEP_PROMPT">>

\* C11: an iteration of the run() loop in which is_stuck() is true after step()
\* returns prepends exactly one copy of the corrective instruction to
\* next_step_prompt, the previous prompt being kept as the suffix; an iteration
\* in which it is false, and every other part of run(), leaves next_step_prompt
\* unchanged; copies are not deduplicated, so the prompt holds one copy per
\* iteration detected stuck.
C11_StuckPromptAccumulates ==
    /\ []PromptShape
    /\ [][/\ StepReturns =>
                next_step_prompt' =
                    IF StuckNow(memory', duplicate_threshold)
                    THEN <<StuckPrompt>> \o next_step_prompt
                    ELSE next_step_prompt
          /\ ~StepReturns => next_step_prompt' = next_step_prompt]_vars

C11_Witness ==
    /\ pc = "loop"
    /\ Len(next_step_prompt) = 3
    /\ next_step_prompt[1] = StuckPrompt /\ next_step_prompt[2] = StuckPrompt
    /\ StuckNow(memory, duplicate_threshold)

---------------------------------------------------------------------------
(* state_context() used on its own: a caller enters it with any target,    *)
(* valid or not, around a body that may write the state and may raise.     *)

\* Targets that are no member of AgentState.
InvalidTargets == {"PAUSED", "idle"}

\* A variant of the validation that accepts every target.
ValidTarget_Any(t) == TRUE

\* state_context: isinstance(new_state, AgentState)
ValidTarget(t) == t \in AgentState

CtxInit ==
    /\ state \in AgentState
    /\ current_step = 0
    /\ max_steps = 0
    /\ duplicate_threshold = 1
    /\ memory = <<>>
    /\ next_step_prompt = <<"NEXT_STEP_PROMPT">>
    /\ pc = "idle"
    /\ request = <<>>
    /\ previous_state = "IDLE"
    /\ results = <<>>
    /\ exc = "none"
    /\ outcome = NoOutcome
    /\ entry = [state |-> state, current_step |-> 0, memory |-> <<>>]
    /\ step_calls = 0
    /\ finish_seen = FALSE
    /\ runs = 0
    /\ ToolIdle

(* async with state_context(target): up to the yield. *)
CtxEnter(target) ==
    /\ pc = "idle"
    /\ runs < MaxRuns
    /\ runs' = runs + 1
    /\ call' = [op |-> "state_context", new_state |-> target]
    /\ entry' = [state |-> state, current_step |-> current_step, memory |-> memory]
    /\ exc' = "none"
    /\ IF ~ValidTarget(target)
       THEN /\ outcome' = Raised("ValueError")
            /\ pc' = "idle"
            /\ UNCHANGED <<state, previous_state>>
       ELSE /\ previous_state' = state
            /\ state' = target
            /\ outcome' = NoOutcome
            /\ pc' = "body"
    /\ UNCHANGED <<current_step, max_steps, duplicate_threshold, memory,
                   next_step_prompt, request, results, step_calls, finish_seen>>
    /\ UNCHANGED <<lhs, rhs, response_type, required, parameters, result>>

(* The wrapped body leaves the state at s and completes or raises. *)
CtxBody(s, raises) ==
    /\ pc = "body"
    /\ state' = s
    /\ exc' = IF raises THEN "BodyError" ELSE "none"
    /\ pc' = IF raises THEN "except" ELSE "finally"
    /\ UNCHANGED <<current_step, max_steps, duplicate_threshold, memory,
                   next_step_prompt, request, previous_state, results, outcome,
                   entry, step_calls, finish_seen, runs>>
    /\ UNCHANGED toolVars

(* state_context: finally: self.state = previous_state, and the context is left. *)
CtxExit ==
    /\ pc = "finally"
    /\ state' = previous_state
    /\ outcome' = IF exc # "none" THEN Raised(exc) ELSE [kind |-> "exit"]
    /\ exc' = "none"
    /\ pc' = "idle"
    /\ UNCHANGED <<current_step, max_steps, duplicate_threshold, memory,
                   next_step_prompt, request, previous_state, results, entry,
                   step_calls, finish_seen, runs>>
    /\ UNCHANGED toolVars

CtxNext ==
    \/ \E target \in AgentState \cup InvalidTargets : CtxEnter(target)
    \/ \E s \in AgentState, raises \in BOOLEAN : CtxBody(s, raises)
    \/ ExceptHandler
    \/ CtxExit

SpecCtx == CtxInit /\ [][CtxNext]_vars

\* C12: entering state_context with a target that is no member of AgentState
\* fails with the validation error before any change: the state is what it was
\* before the call and the wrapped body is not executed.
C12_InvalidTargetRejected ==
    (call.op = "state_context" /\ call.new_state \notin AgentState) =>
        /\ pc = "idle"
        /\ outcome = Raised("ValueError")
        /\ state = entry.state

C12_Witness ==
    /\ call.op = "state_context" /\ call.new_state = "PAUSED"
    /\ outcome = Raised("ValueError")
    /\ runs = 2 /\ state = "FINISHED"

---------------------------------------------------------------------------
(* update_memory() used on its own, with supported and unsupported roles.  *)
(* A tool message is given the tool_call_id it needs.                      *)

UnsupportedRoles == {"function", ""}

MemContents == {"", "A"}

MemInit ==
    /\ state = "IDLE"
    /\ current_step = 0
    /\ max_steps = 0
    /\ duplicate_threshold = 1
    /\ memory = <<>>
    /\ next_step_prompt = <<"NEXT_STEP_PROMPT">>
    /\ pc = "idle"
    /\ request = <<>>
    /\ previous_state = "IDLE"
    /\ results = <<>>
    /\ exc = "none"
    /\ outcome = NoOutcome
    /\ entry = [state |-> "IDLE", current_step |-> 0, memory |-> <<>>]
    /\ step_calls = 0
    /\ finish_seen = FALSE
    /\ runs = 0
    /\ ToolIdle

UpdateMemoryCall(role, content) ==
    /\ pc = "idle"
    /\ Len(memory) < MaxMem
    /\ call' = [op |-> "update_memory", role |-> role, content |-> content]
    /\ entry' = [state |-> state, current_step |-> current_step, memory |-> memory]
    /\ memory' = update_memory(memory, role, content)
    /\ outcome' = IF role \in ROLE_TYPE THEN [kind |-> "done"]
                  ELSE Raised("ValueError")
    /\ UNCHANGED <<state, current_step, max_steps, duplicate_threshold,
                   next_step_prompt, pc, request, previous_state, results, exc,
                   step_calls, finish_seen, runs>>
    /\ UNCHANGED <<lhs, rhs, response_type, required, parameters, result>>

MemNext ==
    \E role \in ROLE_TYPE \cup UnsupportedRoles, content \in MemContents :
        UpdateMemoryCall(role, content)

SpecMem == MemInit /\ [][MemNext]_vars

\* C13: update_memory with a role outside {system, user, assistant, tool} fails
\* with a validation error and leaves memory unchanged; with a role inside the
\* set it appends exactly one message of that role and content at the end of
\* memory and keeps the messages already there, in their order.
C13_UpdateMemory ==
    call.op = "update_memory" =>
        IF call.role \in {"system", "user", "assistant", "tool"}
        THEN /\ outcome.kind = "done"
             /\ Len(memory) = Len(entry.memory) + 1
             /\ SubSeq(memory, 1, Len(entry.memory)) = entry.memory
             /\ memory[Len(memory)].role = call.role
             /\ memory[Len(memory)].content = call.content
        ELSE /\ outcome = Raised("ValueError")
             /\ memory = entry.memory

C13_Witness ==
    /\ call.op = "update_memory" /\ call.role = "function"
    /\ outcome = Raised("ValueError")
    /\ Len(memory) = 2 /\ memory = entry.memory

---------------------------------------------------------------------------
(* ToolResult: __add__ and __bool__ over every pair of results whose       *)
(* fields are unset (None), an empty text, a text, or (output) zero.       *)

ToolFields == {"output", "error", "base64_image", "system"}

OutputValues == {NoneVal, Str(""), Str("x"), Str("y"), Int(0)}

ErrorValues == {NoneVal, Str(""), Str("e")}

ImageValues == {NoneVal, Str(""), Str("p")}

SystemValues == {NoneVal, Str(""), Str("s")}

ToolResults ==
    {ToolResult(o, e, i, s) :
        o \in OutputValues, e \in ErrorValues, i \in ImageValues, s \in SystemValues}

\* combine_fields raising ValueError("Cannot combine tool results").
CannotCombine == [t |-> "raise"]

\* A variant of combine_fields that puts the other operand's value first.
combine_fields_Swapped(field, other_field, concatenate) ==
    IF TruthyVal(field) /\ TruthyVal(other_field)
    THEN (IF concatenate THEN Plus(other_field, field) ELSE CannotCombine)
    ELSE Or(field, other_field)

\* A variant of combine_fields that concatenates whatever the flag says.
combine_fields_AlwaysConcat(field, other_field, concatenate) ==
    IF TruthyVal(field) /\ TruthyVal(other_field)
    THEN Plus(field, other_field)
    ELSE Or(field, other_field)

combine_fields(field, other_field, concatenate) ==
    IF TruthyVal(field) /\ TruthyVal(other_field)
    THEN (IF concatenate THEN Plus(field, other_field) ELSE CannotCombine)
    ELSE Or(field, other_field)

\* ToolResult.__add__: the new result, or the ValueError of the image field.
tool_add(a, b) ==
    LET o == combine_fields(a.output, b.output, TRUE)
        e == combine_fields(a.error, b.error, TRUE)
        i == combine_fields(a.base64_image, b.base64_image, FALSE)
        s == combine_fields(a.system, b.system, TRUE)
    IN IF i = CannotCombine THEN Raised("ValueError")
       ELSE Returned(ToolResult(o, e, i, s))

\* ToolResult.__bool__
tool_bool(a) == \E f \in ToolFields : TruthyVal(a[f])

AgentIdle ==
    /\ state = "IDLE"
    /\ current_step = 0
    /\ max_steps = 0
    /\ duplicate_threshold = 1
    /\ memory = <<>>
    /\ next_step_prompt = <<"NEXT_STEP_PROMPT">>
    /\ pc = "idle"
    /\ request = <<>>
    /\ previous_state = "IDLE"
    /\ results = <<>>
    /\ exc = "none"
    /\ outcome = NoOutcome
    /\ entry = [state |-> "IDLE", current_step |-> 0, memory |-> <<>>]
    /\ step_calls = 0
    /\ finish_seen = FALSE
    /\ runs = 0

ToolInit ==
    /\ AgentIdle
    /\ call = NoCall
    /\ lhs \in ToolResults
    /\ rhs \in ToolResults
    /\ response_type = NoType
    /\ required = <<>>
    /\ parameters = NoSchema
    /\ result = NoneVal

(* lhs + rhs *)
AddCall ==
    /\ call = NoCall
    /\ call' = [op |-> "add", a |-> lhs, b |-> rhs]
    /\ outcome' = tool_add(lhs, rhs)
    /\ UNCHANGED <<state, current_step, max_steps, duplicate_threshold, memory,
                   next_step_prompt, pc, request, previous_state, results, exc,
                   entry, step_calls, finish_seen, runs>>
    /\ UNCHANGED <<lhs, rhs, response_type, required, parameters, result>>

(* bool(lhs) *)
BoolCall ==
    /\ call = NoCall
    /\ call' = [op |-> "bool", a |-> lhs]
    /\ outcome' = [kind |-> "bool", value |-> tool_bool(lhs)]
    /\ UNCHANGED <<state, current_step, max_steps, duplicate_threshold, memory,
                   next_step_prompt, pc, request, previous_state, results, exc,
                   entry, step_calls, finish_seen, runs>>
    /\ UNCHANGED <<lhs, rhs, response_type, required, parameters, result>>

ToolNext == AddCall \/ BoolCall

SpecTool == ToolInit /\ [][ToolNext]_vars

\* A field holds a value (is not None).
Present(v) == v # NoneVal

IsStr(v) == v.t = "str"

ConcatenatedFields == {"output", "error", "system"}

AddReturned == call.op = "add" /\ outcome.kind = "return"

OperandsUnmodified == call.op = "add" => (lhs = call.a /\ rhs = call.b)

C16_TruthyIffSomeFieldSet ==
    call.op = "bool" =>
        (outcome.value <=> \E f \in ToolFields : Present(call.a[f]))

---------------------------------------------------------------------------
(* CreateChatCompletion: the parameter schema built by __init__ for every  *)
(* response type below.                                                    *)

type_mapping ==
    [str |-> "string", int |-> "integer", float |-> "number",
     bool |-> "boolean", dict |-> "object", list |-> "array"]

\* Plain classes: the six mapped ones and one that is not mapped.
PrimNames == {"str", "int", "float", "bool", "dict", "list", "bytes"}

\* BaseModel subclasses: User(name: str, age: int) and Note(text: str = "").
RecordNames == {"User", "Note"}

Prim(n) == [kind |-> "prim", name |-> n]

Record(n) == [kind |-> "record", name |-> n]

\* List[t]
ListOf(t) == [kind |-> "list", elem |-> t]

\* Dict[str, t]
DictOf(t) == [kind |-> "dict", elem |-> t]

\* Union[members]
UnionOf(members) == [kind |-> "union", members |-> members]

\* Tuple[t]: a generic alias whose origin is none of list, dict, Union.
TupleOf(t) == [kind |-> "other", elem |-> t]

LeafTypes == {Prim(n) : n \in PrimNames} \cup {Record(n) : n \in RecordNames}

ElementTypes ==
    LeafTypes \cup {ListOf(t) : t \in LeafTypes} \cup {DictOf(t) : t \in LeafTypes}

ResponseTypes ==
    LeafTypes
    \cup {ListOf(t) : t \in ElementTypes}
    \cup {DictOf(t) : t \in ElementTypes}
    \cup {UnionOf(p) : p \in {q \in ElementTypes \X ElementTypes : q[1] # q[2]}}
    \cup {TupleOf(t) : t \in LeafTypes}

\* self.required: the default and two overriding lists.
RequiredLists == {<<"response">>, <<"a">>, <<"a", "b">>}

\* type_hint.__name__
TypeName(t) ==
    CASE t.kind \in {"prim", "record"} -> t.name
      [] t.kind = "list"  -> "List"
      [] t.kind = "dict"  -> "Dict"
      [] t.kind = "union" -> "Union"
      [] OTHER            -> "Tuple"

\* self.type_mapping.get(type_hint, "string")
MappedType(t) ==
    IF t.kind = "prim" /\ t.name \in DOMAIN type_mapping
    THEN type_mapping[t.name]
    ELSE "string"

\* BaseModel.model_json_schema(); the key "required" is left out when no
\* field is required.
model_json_schema(t) ==
    IF t.name = "User"
    THEN [properties |-> [name |-> [title |-> "Name", type |-> "string"],
                          age  |-> [title |-> "Age", type |-> "integer"]],
          required |-> <<"name", "age">>,
          title |-> "User",
          type |-> "object"]
    ELSE [properties |-> [text |-> [default |-> "", title |-> "Text",
                                    type |-> "string"]],
          title |-> "Note",
          type |-> "object"]

_get_type_info(t) ==
    IF t.kind = "record"
    THEN model_json_schema(t)
    ELSE [type |-> MappedType(t),
          description |-> "Value of type " \o TypeName(t)]

_create_union_schema(types, req) ==
    [type |-> "object",
     properties |->
        [response |->
            [anyOf |-> [i \in DOMAIN types |-> _get_type_info(types[i])]]],
     required |-> req]

\* _create_type_schema falls back to _build_parameters, which calls it
\* again with the same type: the recursion never ends.
RecursionError == [type |-> "RecursionError"]

_create_type_schema(t, req) ==
    CASE t.kind \in {"prim", "record"} ->
            [type |-> "object",
             properties |->
                [response |->
                    [type |-> MappedType(t),
                     description |-> "Response of type " \o TypeName(t)]],
             required |-> req]
      [] t.kind = "list" ->
            [type |-> "object",
             properties |->
                [response |-> [type |-> "array",
                               items |-> _get_type_info(t.elem)]],
             required |-> req]
      [] t.kind = "dict" ->
            [type |-> "object",
             properties |->
                [response |-> [type |-> "object",
                               additionalProperties |-> _get_type_info(t.elem)]],
             required |-> req]
      [] t.kind = "union" -> _create_union_schema(t.members, req)
      [] OTHER -> RecursionError

\* A variant of _build_parameters that always uses self.required.
_build_parameters_OwnRequired(t, req) ==
    IF t = Prim("str")
    THEN [type |-> "object",
          properties |->
             [response |->
                 [type |-> "string",
                  description |->
                     "The response text that should be delivered to the user."]],
          required |-> req]
    ELSE IF t.kind = "record"
    THEN [type |-> "object",
          properties |-> model_json_schema(t).properties,
          required |-> req]
    ELSE _create_type_schema(t, req)

_build_parameters(t, req) ==
    IF t = Prim("str")
    THEN [type |-> "object",
          properties |->
             [response |->
                 [type |-> "string",
                  description |->
                     "The response text that should be delivered to the user."]],
          required |-> req]
    ELSE IF t.kind = "record"
    THEN LET schema == model_json_schema(t)
         IN [type |-> "object",
             properties |-> schema.properties,
             required |-> IF "required" \in DOMAIN schema
                          THEN schema.required ELSE req]
    ELSE _create_type_schema(t, req)

SchemaInit ==
    /\ AgentIdle
    /\ call = NoCall
    /\ lhs = EmptyToolResult
    /\ rhs = EmptyToolResult
    /\ response_type \in ResponseTypes
    /\ required \in RequiredLists
    /\ parameters = NoSchema
    /\ result = NoneVal

(* CreateChatCompletion.__init__(response_type) *)
Construct ==
    /\ call = NoCall
    /\ call' = [op |-> "init", response_type |-> response_type]
    /\ LET built == _build_parameters(response_type, required)
       IN IF built = RecursionError
          THEN /\ outcome' = Raised("RecursionError")
               /\ UNCHANGED parameters
          ELSE /\ outcome' = [kind |-> "done"]
               /\ parameters' = built
    /\ UNCHANGED <<state, current_step, max_steps, duplicate_threshold, memory,
                   next_step_prompt, pc, request, previous_state, results, exc,
                   entry, step_calls, finish_seen, runs>>
    /\ UNCHANGED <<lhs, rhs, response_type, required, result>>

SchemaNext == Construct

SpecSchema == SchemaInit /\ [][SchemaNext]_vars

\* The five kinds of response shape: primitive, record, sequence, mapping,
\* union.
ShapeKinds == {"prim", "record", "list", "dict", "union"}

Constructed == call.op = "init" /\ response_type.kind \in ShapeKinds

IntegerSchema ==
    [type |-> "object",
     properties |-> [response |-> [type |-> "integer",
                                   description |-> "Response of type int"]],
     required |-> <<"response">>]

\* C17 as stated: for every one of the five kinds of shape the built schema
\* is an object schema with the single property "response" and with
\* self.required (["response"] by default) as its required list; for int it
\* is the integer schema.
C17_SingleResponseProperty ==
    Constructed =>
        /\ outcome.kind = "done"
        /\ parameters.type = "object"
        /\ DOMAIN parameters.properties = {"response"}
        /\ parameters.required = required
        /\ (response_type = Prim("int") /\ required = <<"response">>)
              => parameters = IntegerSchema

\* C17: for every primitive, sequence, mapping and union shape the built
\* schema is an object schema with the single property "response" and with
\* self.required (["response"] by default) as its required list, the
\* integer schema for int; for a record shape it is an object schema whose
\* properties are the record's own fields and whose required list is the
\* record's own, self.required only when the record requires no field.
C17_ResponsePropertyOrRecordFields ==
    Constructed =>
        /\ outcome.kind = "done"
        /\ parameters.type = "object"
        /\ IF response_type.kind = "record"
           THEN LET schema == model_json_schema(response_type)
                IN /\ parameters.properties = schema.properties
                   /\ "response" \notin DOMAIN parameters.properties
                   /\ parameters.required =
                        (IF response_type.name = "User"
                         THEN <<"name", "age">> ELSE required)
           ELSE /\ DOMAIN parameters.properties = {"response"}
                /\ parameters.required = required
        /\ (response_type = Prim("int") /\ required = <<"response">>)
              => parameters = IntegerSchema

C17_Witness ==
    /\ Constructed
    /\ response_type = Record("User")
    /\ required = <<"response">>
    /\ DOMAIN parameters.properties = {"name", "age"}
    /\ parameters.required = <<"name", "age">>

\* The schema derived from a shape by the rules of the type mapping,
\* applied at every level.
RECURSIVE Derived(_)
Derived(t) ==
    CASE t.kind = "prim" ->
            [type |-> MappedType(t),
             description |-> "Value of type " \o TypeName(t)]
      [] t.kind = "record" -> model_json_schema(t)
      [] t.kind = "list" -> [type |-> "array", items |-> Derived(t.elem)]
      [] t.kind = "dict" ->
            [type |-> "object", additionalProperties |-> Derived(t.elem)]
      [] OTHER ->
            [anyOf |-> [i \in DOMAIN t.members |-> Derived(t.members[i])]]

\* C18: for a sequence shape the response property is an array whose items
\* schema is the schema derived from the element shape, for a mapping shape
\* its additionalProperties is the schema derived from the value shape, and
\* for a union its anyOf members are the schemas derived from the member
\* shapes, nested sequences, mappings and records included.
C18_DerivedRecursively ==
    (call.op = "init" /\ response_type.kind \in {"list", "dict", "union"}) =>
        LET response == parameters.properties.response
        IN CASE response_type.kind = "list" ->
                    /\ response.type = "array"
                    /\ response.items = Derived(response_type.elem)
             [] response_type.kind = "dict" ->
                    /\ response.type = "object"
                    /\ response.additionalProperties = Derived(response_type.elem)
             [] OTHER ->
                    response.anyOf =
                        [i \in DOMAIN response_type.members |->
                            Derived(response_type.members[i])]

---------------------------------------------------------------------------
(* CreateChatCompletion.execute: every call on a constructed tool, over    *)
(* the required lists and raw fields below.                                *)

ListVal(items) == [t |-> "list", items |-> items]

DictVal(items) == [t |-> "dict", items |-> items]

Float(n) == [t |-> "float", n |-> n]

Bool(b) == [t |-> "bool", b |-> b]

\* An instance of a BaseModel subclass.
RecordVal(n, fields) == [t |-> "record", name |-> n, fields |-> fields]

\* The response types execute is called with.
ExecTypes ==
    {Prim("str"), Prim("int"), Prim("float"), Prim("bool"),
     Record("User"), Record("Note"),
     ListOf(Prim("str")), DictOf(Prim("int")),
     UnionOf(<<Prim("int"), Prim("str")>>)}

\* self.required, the empty list included.
ExecRequiredLists == RequiredLists \cup {<<>>}

\* The required argument of execute: None, [], ["a"], ["a", "b"].
RequiredArgs ==
    {NoneVal, ListVal(<<>>), ListVal(<<"a">>), ListVal(<<"a", "b">>)}

ResponseKeys == {"response", "a", "b", "c"}

RecordKeys == {"name", "age"}

\* The raw values a field of kwargs takes.
FieldValues(k) ==
    CASE k = "response" -> {Int(1), Str("7"), Str("x"), Str("")}
      [] k = "a"        -> {Int(1), Str("7")}
      [] k = "b"        -> {Int(2), Str("x")}
      [] k = "c"        -> {Int(3)}
      [] k = "name"     -> {Str("x"), Int(1)}
      [] OTHER          -> {Int(7), Str("7"), Str("x")}

KwargsOver(D) ==
    {kw \in [D -> UNION {FieldValues(k) : k \in D}] :
        \A k \in D : kw[k] \in FieldValues(k)}

RawKwargs ==
    UNION {KwargsOver(D) : D \in SUBSET ResponseKeys}
    \cup UNION {KwargsOver(D) : D \in SUBSET RecordKeys}

\* Texts that int() and float() accept, with their values.
IntLiterals == [s \in {"7"} |-> 7]

\* A variant of kwargs.get(field, "") whose default is None.
kwargs_get_None(kw, field) == IF field \in DOMAIN kw THEN kw[field] ELSE NoneVal

\* kwargs.get(field, "")
kwargs_get(kw, field) == IF field \in DOMAIN kw THEN kw[field] ELSE Str("")

\* required or self.required
required_or_default(arg, own) == IF TruthyVal(arg) THEN arg.items ELSE own

\* self.response_type(result) raising ValueError or TypeError.
CoercionFails == [t |-> "raise"]

\* self.response_type(result) for a type that is no str, no record, no
\* List[...] and no Dict[...]; typing.Union cannot be instantiated.
coerce(t, v) ==
    CASE t = Prim("int") ->
            IF v.t = "int" THEN v
            ELSE IF v.s \in DOMAIN IntLiterals THEN Int(IntLiterals[v.s])
            ELSE CoercionFails
      [] t = Prim("float") ->
            IF v.t = "int" THEN Float(v.n)
            ELSE IF v.s \in DOMAIN IntLiterals THEN Float(IntLiterals[v.s])
            ELSE CoercionFails
      [] t = Prim("bool") -> Bool(TruthyVal(v))
      [] OTHER -> CoercionFails

\* self.response_type(**kwargs): pydantic validates the fields, ignores
\* the other keys, and raises ValidationError when a field does not fit.
construct_record(t, kw) ==
    IF t.name = "User"
    THEN IF /\ "name" \in DOMAIN kw
            /\ kw["name"].t = "str"
            /\ "age" \in DOMAIN kw
            /\ coerce(Prim("int"), kw["age"]) # CoercionFails
         THEN Returned(RecordVal("User",
                  [name |-> kw["name"],
                   age |-> coerce(Prim("int"), kw["age"])]))
         ELSE Raised("ValidationError")
    ELSE Returned(RecordVal("Note", [text |-> Str("")]))

\* The type conversion of execute.
convert(t, extracted, kw) ==
    IF t = Prim("str") THEN Returned(extracted)
    ELSE IF t.kind = "record" THEN construct_record(t, kw)
    ELSE IF t.kind \in {"list", "dict"} THEN Returned(extracted)
    ELSE IF coerce(t, extracted) # CoercionFails
         THEN Returned(coerce(t, extracted))
         ELSE Returned(extracted)

ExecInit ==
    /\ AgentIdle
    /\ call = NoCall
    /\ lhs = EmptyToolResult
    /\ rhs = EmptyToolResult
    /\ response_type \in ExecTypes
    /\ required \in ExecRequiredLists
    /\ parameters = _build_parameters(response_type, required)
    /\ result = NoneVal

(* CreateChatCompletion.execute(required=arg, **kw) *)
Execute(arg, kw) ==
    /\ call = NoCall
    /\ call' = [op |-> "execute", required |-> arg, kwargs |-> kw]
    /\ LET req == required_or_default(arg, required)
       IN IF Len(req) > 1
          THEN /\ result' = NoneVal
               /\ outcome' =
                    Returned(DictVal([f \in {req[i] : i \in DOMAIN req} |->
                                         kwargs_get(kw, f)]))
          ELSE LET required_field ==
                       IF Len(req) = 1 THEN req[1] ELSE "response"
               IN /\ result' = kwargs_get(kw, required_field)
                  /\ outcome' = convert(response_type, result', kw)
    /\ UNCHANGED <<state, current_step, max_steps, duplicate_threshold, memory,
                   next_step_prompt, pc, request, previous_state, results, exc,
                   entry, step_calls, finish_seen, runs>>
    /\ UNCHANGED <<lhs, rhs, response_type, required, parameters>>

ExecNext == \E arg \in RequiredArgs, kw \in RawKwargs : Execute(arg, kw)

SpecExec == ExecInit /\ [][ExecNext]_vars

\* The required list in effect: the argument, or self.required when the
\* argument is None or empty.
RequiredInEffect ==
    IF call.required = NoneVal \/ call.required = ListVal(<<>>)
    THEN required
    ELSE call.required.items

RawValue(f) == IF f \in DOMAIN call.kwargs THEN call.kwargs[f] ELSE Str("")

\* C19: with exactly one required field the extracted value is that
\* field's raw value, the empty text if the field is absent; with several
\* required fields execute returns the mapping whose keys are exactly the
\* required names, each with its raw value or the empty text.
C19_ExtractRequiredFields ==
    call.op = "execute" =>
        LET req == RequiredInEffect
        IN /\ Len(req) = 1 => result = RawValue(req[1])
           /\ Len(req) > 1 =>
                /\ outcome.kind = "return"
                /\ outcome.value.t = "dict"
                /\ DOMAIN outcome.value.items = {req[i] : i \in DOMAIN req}
                /\ \A f \in DOMAIN outcome.value.items :
                      outcome.value.items[f] = RawValue(f)

C19_Witness ==
    /\ call.op = "execute"
    /\ call.required = ListVal(<<"a", "b">>)
    /\ DOMAIN call.kwargs = {"a", "b", "c"}
    /\ call.kwargs["a"] = Int(1)
    /\ call.kwargs["b"] = Int(2)
    /\ call.kwargs["c"] = Int(3)
    /\ outcome = Returned(DictVal([f \in {"a", "b"} |->
                                      IF f = "a" THEN Int(1) ELSE Int(2)]))

\* C20: execute never raises, whatever the response type and the raw
\* fields; for int, float and bool with at most one required field it
\* returns the coerced extracted value when the coercion succeeds and the
\* extracted value itself when it fails.
C20_NeverRaises ==
    call.op = "execute" =>
        /\ outcome.kind = "return"
        /\ (/\ response_type \in {Prim("int"), Prim("float"), Prim("bool")}
            /\ Len(RequiredInEffect) <= 1)
              => outcome.value =
                    (IF coerce(response_type, result) # CoercionFails
                     THEN coerce(response_type, result)
                     ELSE result)

---------------------------------------------------------------------------
(* Properties of the loop of run(), checked under Spec.                    *)

IsStepRecord(r) == r.kind = "Step"

\* The per-step records of a list of summary lines, in their order.
StepRecordsOf(lines) == SelectSeq(lines, IsStepRecord)

\* step() invocations of the current run that have returned.
CompletedSteps ==
    IF pc = "in_step" \/ exc # "none" THEN step_calls - 1 ELSE step_calls

\* The per-step records of lines are those of n consecutive steps, the
\* first one numbered first, and no other line comes before them.
ConsecutiveRecords(lines, first, n) ==
    /\ Len(StepRecordsOf(lines)) = n
    /\ \A i \in 1..n : IsStepRecord(lines[i]) /\ lines[i].n = first + i - 1

StepInvoked == pc = "loop" /\ pc' = "in_step"

\* C21: an iteration increments current_step, then invokes step(), and when
\* step() has returned appends the one record "Step <current_step>: <result>"
\* with the incremented counter; so the records of a run, while it runs and
\* in the summary it returns, are one per completed step() invocation, in
\* invocation order, numbered consecutively.
C21_OneRecordPerStepInOrder ==
    /\ [](pc # "idle" =>
            ConsecutiveRecords(results, entry.current_step + 1, CompletedSteps))
    /\ [](RunReturned =>
            ConsecutiveRecords(outcome.value, entry.current_step + 1, step_calls))
    /\ [][/\ StepInvoked =>
               (current_step' = current_step + 1 /\ results' = results)
          /\ StepReturns =>
               /\ current_step' = current_step
               /\ \E text \in StepResults :
                     results' = Append(results, StepRecord(current_step, text))
         ]_vars

C21_Witness ==
    /\ RunReturned
    /\ step_calls = 2
    /\ outcome.value[1] = StepRecord(1, "done")
    /\ outcome.value[2] = StepRecord(2, "ok")

\* C22: step() is invoked only from a point where current_step, before the
\* increment, is below max_steps and the state is not FINISHED; once a step
\* of a run has set FINISHED that run invokes no further step(); and a run
\* invokes step() at most max_steps times.
C22_StepOnlyWithinBudget ==
    /\ [](step_calls <= max_steps)
    /\ [][/\ StepInvoked =>
               (current_step < max_steps /\ state # "FINISHED")
          /\ step_calls' > step_calls => (StepInvoked /\ ~finish_seen)
         ]_vars

C22_Witness ==
    /\ pc = "after_loop"
    /\ finish_seen
    /\ state = "FINISHED"
    /\ step_calls = 1
    /\ current_step < max_steps

---------------------------------------------------------------------------
(* Termination of run(): the coroutine is scheduled until it ends, and      *)
(* every awaited step() returns or raises.                                  *)

RunProgress ==
    \/ StateContextEnter
    \/ LoopEnterStep
    \/ LoopExit
    \/ \E app \in StepAppends, text \in StepResults, finish \in BOOLEAN :
          StepReturn(app, text, finish)
    \/ \E app \in StepAppends : StepRaise(app)
    \/ ExceptHandler
    \/ AfterLoop
    \/ Finally

\* An idle agent, with the largest duplicate_threshold.
LiveInit == Init /\ state = "IDLE" /\ duplicate_threshold = MaxThreshold

SpecLive == LiveInit /\ [][Next]_vars /\ WF_vars(RunProgress)

RunInProgress == pc # "idle"

RunEnded == pc = "idle" /\ outcome.kind \in {"return", "raise"}

\* C23: every accepted run() ends, with a summary or with an exception,
\* and invokes step() at most max_steps minus the entry value of
\* current_step times.
C23_RunTerminates ==
    /\ [](RunInProgress => entry.current_step + step_calls <= max_steps)
    /\ [](RunEnded /\ entry.state = "IDLE" =>
             entry.current_step + step_calls <= max_steps)
    /\ (RunInProgress ~> RunEnded)

C23_Witness ==
    /\ RunEnded
    /\ entry.state = "IDLE"
    /\ entry.current_step = 1
    /\ step_calls = 1
    /\ max_steps = 2

---------------------------------------------------------------------------
(* A second run() on the same agent, called while the first one is          *)
(* suspended in its await of step().  step() may have written FINISHED      *)
(* before it suspended.                                                     *)

(* step() writes FINISHED and goes on, to suspend or to return. *)
StepSetsFinished ==
    /\ pc = "in_step"
    /\ state # "FINISHED"
    /\ state' = "FINISHED"
    /\ finish_seen' = TRUE
    /\ UNCHANGED <<current_step, max_steps, duplicate_threshold, memory,
                   next_step_prompt, pc, request, previous_state, results, exc,
                   outcome, entry, step_calls, runs>>
    /\ UNCHANGED toolVars

(* run(req) called while the first run() is suspended, taken up to its     *)
(* first suspension: the guard raises; past the guard the call stores its  *)
(* request, writes RUNNING and either awaits a step() of its own or, the    *)
(* budget being used up, resets the counter and returns.                    *)
SecondRunCall(req) ==
    /\ pc = "in_step"
    /\ call = NoCall
    /\ RequestGiven(req) => Len(memory) < MaxMem
    /\ IF ~CanRun(state)
       THEN /\ call' = [op |-> "run", request |-> req,
                        outcome |-> Raised("RuntimeError")]
            /\ UNCHANGED <<state, current_step, memory, step_calls>>
       ELSE /\ memory' = IF RequestGiven(req)
                         THEN update_memory(memory, "user", req[1])
                         ELSE memory
            /\ IF current_step < max_steps
               THEN /\ state' = "RUNNING"
                    /\ current_step' = current_step + 1
                    /\ step_calls' = step_calls + 1
                    /\ call' = [op |-> "run", request |-> req,
                                outcome |-> NoOutcome]
               ELSE /\ state' = state
                    /\ current_step' = 0
                    /\ step_calls' = step_calls
                    /\ call' = [op |-> "run", request |-> req,
                                outcome |-> Returned(<<TerminatedRecord(max_steps)>>)]
    /\ UNCHANGED <<max_steps, duplicate_threshold, next_step_prompt, pc,
                   request, previous_state, results, exc, outcome, entry,
                   finish_seen, runs>>
    /\ UNCHANGED <<lhs, rhs, response_type, required, parameters, result>>

ConcNext ==
    \/ Next
    \/ StepSetsFinished
    \/ \E req \in Requests : SecondRunCall(req)

SpecConc == LiveInit /\ [][ConcNext]_vars

SecondCallMade == call = NoCall /\ call' # NoCall

\* C24: while a run() is suspended in step() the state is RUNNING or
\* FINISHED, and a second run() called then fails with the invocation
\* error, invokes no step(), stores no request and leaves state and
\* current_step as they were.
C24_SecondRunRejected ==
    /\ [](pc = "in_step" => state \in {"RUNNING", "FINISHED"})
    /\ [][SecondCallMade =>
             /\ call'.outcome = Raised("RuntimeError")
             /\ step_calls' = step_calls
             /\ memory' = memory
             /\ state' = state
             /\ current_step' = current_step
         ]_vars

C24_Witness ==
    /\ call # NoCall
    /\ call.request = <<"A">>
    /\ call.outcome = Raised("RuntimeError")
    /\ pc = "in_step"
    /\ state = "FINISHED"

---------------------------------------------------------------------------
(* The step counter across runs, checked under Spec.                       *)

\* The counter value at which the last run made its last step() invocation.
LastStepNumber == entry.current_step + step_calls

\* The last run ended because a step set FINISHED before the budget was
\* used up.
EndedEarly == RunReturned /\ finish_seen /\ LastStepNumber < max_steps

RunAccepted == pc = "idle" /\ pc' = "enter_context"

\* C25: a run that ends because a step set FINISHED at counter value
\* k < max_steps leaves current_step at k; the next run() starts from k,
\* invokes step() at most max_steps - k times and numbers its first
\* per-step record k + 1.
C25_CounterCarriedOver ==
    /\ [](EndedEarly => (current_step = LastStepNumber /\ current_step >= 1))
    /\ [][(EndedEarly /\ RunAccepted) => entry'.current_step = current_step]_vars
    /\ [](pc # "idle" =>
            /\ entry.current_step + step_calls <= max_steps
            /\ results # <<>> =>
                  results[1] \in {StepRecord(entry.current_step + 1, text) :
                                     text \in StepResults}
                             \cup {TerminatedRecord(max_steps)})

C25_Witness ==
    /\ RunReturned
    /\ runs = 2
    /\ entry.current_step = 1
    /\ max_steps = 2
    /\ step_calls = 1
    /\ outcome.value[1] = StepRecord(2, "done")

NoRunInProgress == pc = "idle"

CounterInRange == current_step >= 0 /\ current_step <= max_steps

\* C26 as stated: current_step is always between 0 and max_steps, and is
\* never equal to max_steps while no run is in progress.
C26_CounterBelowBudgetWhenIdle ==
    /\ CounterInRange
    /\ NoRunInProgress => current_step # max_steps

\* C26: current_step is always between 0 and max_steps; while no run is in
\* progress it equals max_steps only when max_steps is 0, or when the last
\* run ended with the exception of its step() invocation number max_steps,
\* which leaves the counter there until the next run resets it.
C26_CounterInRange ==
    /\ CounterInRange
    /\ (NoRunInProgress /\ current_step = max_steps) =>
          \/ max_steps = 0
          \/ (RunFailedInStep /\ LastStepNumber = max_steps)

C26_Witness ==
    /\ NoRunInProgress
    /\ RunFailedInStep
    /\ max_steps = 2
    /\ current_step = 2

====
